---- MODULE Spec2Model ----
(***************************************************************************)
(* Model of the gRPC language service (src/src/server.rs): the Translate   *)
(* and Synthesize handlers of LanguageService, the three provider adapters *)
(* (translate_text, get_voice_id, synthesize_speech) and their mapping of  *)
(* provider faults to ErrorType and of ErrorType to RpcStatus.             *)
(*                                                                         *)
(* The server is built on Environment::new(1): one completion-queue thread *)
(* runs the handlers, and every adapter blocks on .sync(), so one handler  *)
(* is in progress at a time.  The provider's answer to each blocking call  *)
(* is an input of the model.                                               *)
(*                                                                         *)
(* The module also models main of the server (the stdin thread, the        *)
(* channel and the shutdown) and the terminal client's stage machine       *)
(* (src/src/client.rs).  Reads of standard input and file writes are taken *)
(* to succeed: the code unwraps them.                                      *)
(***************************************************************************)
EXTENDS Integers, Sequences, FiniteSets

VARIABLES
    pc,         \* where the handler thread is: idle, blocked in an adapter, done
    rpc,        \* the RPC being handled: "translate" or "synthesize"
    req,        \* the LanguageRequest of the RPC being handled
    calls,      \* the adapter calls of this RPC, in order, with their results
    response,   \* what the UnarySink was completed with
    prev,       \* the last failed reply a caller saw before this RPC
    sunk,       \* the completions of this RPC's UnarySink, in order
    memo,       \* an earlier RPC, remembered whole: request, answers, reply
    \* main of the server
    main_pc,    \* where the main thread is
    stdin_pc,   \* where the thread reading standard input is
    chan,       \* the number of messages in the mpsc channel
    server,     \* the grpc server: listening, shutting_down, stopped
    \* main of the client
    stage,      \* Stage: OPERATION, SRC, TARGET, TEXT
    op,         \* the chosen operation: "", "translate", "synthesize"
    creq,       \* the client's LanguageRequest
    count,      \* the file counter
    input,      \* the line read in the last loop iteration
    alive,      \* FALSE once the loop has been left
    files,      \* the files written, by name
    last        \* the RPC sent in the last loop iteration, with its result

handlerVars == <<pc, rpc, req, calls, response, prev, sunk>>
mainVars == <<main_pc, stdin_pc, chan, server>>
clientVars == <<stage, op, creq, count, input, alive, files, last>>

vars == <<handlerVars, memo, mainVars, clientVars>>

\* ------------------------------------------------------------------ bounds
MaxVoices == 2      \* longest voice list the provider stub returns

\* ------------------------------------------------------------- data model
None == [some |-> FALSE]
Some(x) == [some |-> TRUE, val |-> x]

Ok(v) == [ok |-> TRUE, val |-> v]
Err(e) == [ok |-> FALSE, err |-> e]

LanguageCode == {"UNKNOWN", "EN", "ZH", "FR", "DE", "PT", "ES"}

ErrorType == {"User", "Internal"}

Texts == {"hello", "bonjour"}

LanguageRequest ==
    [source_language_code : LanguageCode,
     target_language_code : LanguageCode,
     text : Texts]

\* Strings that the code formats are sequences of characters.
Lower == <<"a","b","c","d","e","f","g","h","i","j","k","l","m",
           "n","o","p","q","r","s","t","u","v","w","x","y","z">>
Upper == <<"A","B","C","D","E","F","G","H","I","J","K","L","M",
           "N","O","P","Q","R","S","T","U","V","W","X","Y","Z">>

UpperChar(ch) ==
    IF \E i \in DOMAIN Lower : Lower[i] = ch
    THEN Upper[CHOOSE i \in DOMAIN Lower : Lower[i] = ch]
    ELSE ch

\* variant: the code is not put in upper case
to_uppercase_Identity(s) == s

to_uppercase(s) == [i \in DOMAIN s |-> UpperChar(s[i])]

\* impl Display for LanguageCode
to_string(c) ==
    CASE c = "EN" -> <<"e","n">>
      [] c = "ZH" -> <<"z","h">>
      [] c = "FR" -> <<"f","r">>
      [] c = "DE" -> <<"d","e">>
      [] c = "PT" -> <<"p","t">>
      [] c = "ES" -> <<"e","s">>
      [] OTHER    -> <<>>

\* the language_code computed by synthesize for the voice lookup
LocaleTag(c) ==
    CASE c = "ZH" -> <<"c","m","n","-","C","N">>
      [] c = "EN" -> <<"e","n","-","U","S">>
      [] OTHER    -> to_string(c) \o <<"-">> \o to_uppercase(to_string(c))

\* ---------------------------------------------------------- provider stubs
TranslateTextError ==
    {"DetectedLanguageLowConfidence", "InternalServer", "InvalidRequest",
     "ServiceUnavailable", "TextSizeLimitExceeded", "TooManyRequests",
     "UnsupportedLanguagePair", "Validation", "Credentials",
     "HttpDispatch", "ParseError", "Unknown"}

DescribeVoicesError ==
    {"InvalidNextToken", "ServiceFailure", "Validation", "Credentials",
     "HttpDispatch", "ParseError", "Unknown"}

SynthesizeSpeechError ==
    {"InvalidSampleRate", "InvalidSsml", "LanguageNotSupported",
     "LexiconNotFound", "MarksNotSupportedForFormat", "ServiceFailure",
     "SsmlMarksNotSupportedForTextType", "TextLengthExceeded", "Validation",
     "Credentials", "HttpDispatch", "ParseError", "Unknown"}

VoiceIds == {"Celine", "Joanna"}
Voice == {[id |-> None]} \cup {[id |-> Some(v)] : v \in VoiceIds}
VoiceLists == UNION {[1..n -> Voice] : n \in 0..MaxVoices}
AudioStreams == {<<>>, <<1, 2>>}

TranslateOutcomes ==
    {Ok([translated_text |-> t]) : t \in Texts}
        \cup {Err(e) : e \in TranslateTextError}

DescribeVoicesOutcomes ==
    {Ok([voices |-> None])}
        \cup {Ok([voices |-> Some(l)]) : l \in VoiceLists}
        \cup {Err(e) : e \in DescribeVoicesError}

SynthesizeSpeechOutcomes ==
    {Ok([audio_stream |-> None])}
        \cup {Ok([audio_stream |-> Some(a)]) : a \in AudioStreams}
        \cup {Err(e) : e \in SynthesizeSpeechError}

\* ----------------------------------------------------------------- adapters
\* variant: ServiceUnavailable left out of the Internal arm
TranslateErrorType_NoUnavailable(e) ==
    IF e \in {"InternalServer", "HttpDispatch", "Unknown", "ParseError"}
    THEN "Internal"
    ELSE "User"

\* map_err of translate_text
TranslateErrorType(e) ==
    IF e \in {"InternalServer", "ServiceUnavailable", "HttpDispatch",
              "Unknown", "ParseError"}
    THEN "Internal"
    ELSE "User"

\* variant: ServiceFailure left out of the Internal arm
SynthesizeErrorType_NoServiceFailure(e) ==
    IF e \in {"HttpDispatch", "Unknown", "ParseError"}
    THEN "Internal"
    ELSE "User"

\* map_err of synthesize_speech
SynthesizeErrorType(e) ==
    IF e \in {"HttpDispatch", "Unknown", "ServiceFailure", "ParseError"}
    THEN "Internal"
    ELSE "User"

\* variant: Credentials left out of the User arm
DescribeVoicesErrorType_NoCredentials(e) ==
    IF e \in {"InvalidNextToken", "Validation"}
    THEN "User"
    ELSE "Internal"

\* map_err of get_voice_id
DescribeVoicesErrorType(e) ==
    IF e \in {"InvalidNextToken", "Validation", "Credentials"}
    THEN "User"
    ELSE "Internal"

TranslateTextRequest(source_language_code, target_language_code, text) ==
    [source_language_code |-> to_string(source_language_code),
     target_language_code |-> to_string(target_language_code),
     text |-> text]

DescribeVoicesInput(language_code) ==
    [language_code |-> Some(language_code), next_token |-> None]

SynthesizeSpeechInput(voice_id, text) ==
    [text |-> text, voice_id |-> voice_id, output_format |-> "mp3"]

\* variant: a failed translation is kept and answered again to later calls
translate_text_Cached(o) ==
    IF prev.stage = "translate_text" THEN Err(prev.kind)
    ELSE IF o.ok THEN Ok(o.val.translated_text)
    ELSE Err(TranslateErrorType(o.err))

\* what translate_text returns when the provider answers with outcome o
translate_text(o) ==
    IF o.ok THEN Ok(o.val.translated_text)
    ELSE Err(TranslateErrorType(o.err))

\* variant: the last voice instead of the first
FirstVoiceId_Last(voices) ==
    IF Len(voices) = 0 THEN ""
    ELSE IF voices[Len(voices)].id.some THEN voices[Len(voices)].id.val
         ELSE ""

\* just take first voice
FirstVoiceId(voices) ==
    IF Len(voices) = 0 THEN ""
    ELSE IF voices[1].id.some THEN voices[1].id.val ELSE ""

\* what get_voice_id returns when the provider answers with outcome o
get_voice_id(o) ==
    IF o.ok
    THEN Ok(FirstVoiceId(IF o.val.voices.some THEN o.val.voices.val ELSE <<>>))
    ELSE Err(DescribeVoicesErrorType(o.err))

\* what synthesize_speech returns when the provider answers with outcome o
synthesize_speech(o) ==
    IF o.ok
    THEN Ok(IF o.val.audio_stream.some THEN o.val.audio_stream.val ELSE <<>>)
    ELSE Err(SynthesizeErrorType(o.err))

\* ------------------------------------------------------------ orchestration
RpcStatus(code, details) == [code |-> code, details |-> details]

\* variant: the two arms of the match exchanged
StatusOf_Swapped(e) ==
    IF e = "User" THEN RpcStatus("Internal", None)
    ELSE RpcStatus("InvalidArgument", None)

\* the status both handlers build from an adapter's ErrorType
StatusOf(e) ==
    IF e = "User" THEN RpcStatus("InvalidArgument", None)
    ELSE RpcStatus("Internal", None)

\* variant: the validation reply carries a message
ValidationStatus_WithMessage ==
    RpcStatus("InvalidArgument", Some("unknown language code"))

\* the status synthesize replies with when a language code is UNKNOWN
ValidationStatus == RpcStatus("InvalidArgument", None)

\* variant: only the target code is checked
HasUnknownCode_TargetOnly(r) == r.target_language_code = "UNKNOWN"

\* the guard of synthesize
HasUnknownCode(r) ==
    \/ r.target_language_code = "UNKNOWN"
    \/ r.source_language_code = "UNKNOWN"

\* variant: the next stage runs whatever the result
AndThen_Always(r) == TRUE

\* and_then: the closure runs only on Ok
AndThen(r) == r.ok

SinkSuccess(resp) == [ok |-> TRUE, resp |-> resp]
SinkFail(status) == [ok |-> FALSE, status |-> status]

\* variant: the reply future is built but the sink is completed a second time
Complete_Twice(s, reply) == Append(Append(s, reply), reply)

\* sink.success / sink.fail: the sink is consumed by its completion
Complete(s, reply) == Append(s, reply)

TranslateResponse(translated_text) == [translated_text |-> translated_text]
\* variant: the response is left with its default, empty audio_bytes
SynthesizeResponse_Default(audio_bytes) == [audio_bytes |-> <<>>]
SynthesizeResponse(audio_bytes) == [audio_bytes |-> audio_bytes]

NoRequest == [source_language_code |-> "UNKNOWN",
              target_language_code |-> "UNKNOWN", text |-> ""]
NoResponse == [none |-> TRUE]
NoFailure == [stage |-> "none"]

\* an adapter call that is blocked in the provider
Invoke(adapter, args, sent) ==
    [adapter |-> adapter, args |-> args, sent |-> sent, returned |-> FALSE]

\* the same call once the provider has answered o and the adapter returned r
Return(call, o, r) ==
    [adapter |-> call.adapter, args |-> call.args, sent |-> call.sent,
     returned |-> TRUE, outcome |-> o, result |-> r]

InvokeTranslateText(r) ==
    Invoke("translate_text",
           [source_language_code |-> r.source_language_code,
            target_language_code |-> r.target_language_code,
            text |-> r.text],
           TranslateTextRequest(r.source_language_code,
                                r.target_language_code, r.text))

InvokeGetVoiceId(language_code) ==
    Invoke("get_voice_id", [language_code |-> language_code],
           DescribeVoicesInput(language_code))

InvokeSynthesizeSpeech(voice_id, text) ==
    Invoke("synthesize_speech", [voice_id |-> voice_id, text |-> text],
           SynthesizeSpeechInput(voice_id, text))

\* the stage a reply came from: the adapter that returned Err, or validation
FailedStage ==
    IF calls = <<>> THEN "validation" ELSE calls[Len(calls)].adapter

\* the error kind behind a failed reply
FailedKind ==
    IF calls = <<>> THEN "User" ELSE calls[Len(calls)].result.err

\* the last failed reply a caller has seen, once this RPC has replied
Observed ==
    IF ~response.ok
    THEN [stage |-> FailedStage, kind |-> FailedKind, rpc |-> rpc,
          response |-> response]
    ELSE prev

NoMemo == [rpc |-> "none"]
NoFiles == <<>>
NoRpc == [rpc |-> "none"]

HandlerInit ==
    /\ pc = "idle"
    /\ rpc = "none"
    /\ req = NoRequest
    /\ calls = <<>>
    /\ response = NoResponse
    /\ prev = NoFailure
    /\ sunk = <<>>
    /\ memo = NoMemo

\* main of the server after server.start()
MainInit ==
    /\ main_pc = "spawn"
    /\ stdin_pc = "unborn"
    /\ chan = 0
    /\ server = "listening"

\* main of the client before the loop, LanguageRequest::new() holding the
\* default code d in both fields
ClientInit(d) ==
    /\ stage = "OPERATION"
    /\ op = ""
    /\ creq = [source_language_code |-> d, target_language_code |-> d,
               text |-> <<>>]
    /\ count = 0
    /\ input = <<>>
    /\ alive = TRUE
    /\ files = NoFiles
    /\ last = NoRpc

Init ==
    /\ HandlerInit
    /\ MainInit
    /\ ClientInit("UNKNOWN")

\* fn translate: the handler starts and blocks in translate_text
Translate(r) ==
    /\ pc = "idle"
    /\ prev' = prev
    /\ rpc' = "translate"
    /\ req' = r
    /\ calls' = <<InvokeTranslateText(r)>>
    /\ response' = NoResponse
    /\ pc' = "translate_text"
    /\ UNCHANGED <<sunk, memo, mainVars, clientVars>>

\* fn synthesize: the handler starts, validates and blocks in translate_text
Synthesize(r) ==
    /\ pc = "idle"
    /\ prev' = prev
    /\ rpc' = "synthesize"
    /\ req' = r
    /\ IF HasUnknownCode(r)
       THEN /\ calls' = <<>>
            /\ response' = SinkFail(ValidationStatus)
            /\ sunk' = Complete(sunk, SinkFail(ValidationStatus))
            /\ pc' = "done"
       ELSE /\ calls' = <<InvokeTranslateText(r)>>
            /\ response' = NoResponse
            /\ sunk' = sunk
            /\ pc' = "translate_text"
    /\ UNCHANGED <<memo, mainVars, clientVars>>

\* translate_text returns; translate replies, synthesize goes on or replies
TranslateTextReturns(o) ==
    /\ pc = "translate_text"
    /\ LET r == translate_text(o)
           done == <<Return(calls[1], o, r)>>
       IN  IF rpc = "translate"
           THEN /\ calls' = done
                /\ response' = IF r.ok
                               THEN SinkSuccess(TranslateResponse(r.val))
                               ELSE SinkFail(StatusOf(r.err))
                /\ sunk' = Complete(sunk, response')
                /\ pc' = "done"
           ELSE IF AndThen(r)
                THEN /\ calls' = Append(done,
                          InvokeGetVoiceId(LocaleTag(req.target_language_code)))
                     /\ response' = NoResponse
                     /\ sunk' = sunk
                     /\ pc' = "get_voice_id"
                ELSE /\ calls' = done
                     /\ response' = SinkFail(StatusOf(r.err))
                     /\ sunk' = Complete(sunk, response')
                     /\ pc' = "done"
    /\ UNCHANGED <<rpc, req, prev, memo, mainVars, clientVars>>

\* get_voice_id returns; synthesize goes on to synthesize_speech or replies
GetVoiceIdReturns(o) ==
    /\ pc = "get_voice_id"
    /\ LET r == get_voice_id(o)
           done == <<calls[1], Return(calls[2], o, r)>>
       IN  IF AndThen(r)
           THEN /\ calls' = Append(done,
                     InvokeSynthesizeSpeech(r.val, calls[1].result.val))
                /\ response' = NoResponse
                /\ sunk' = sunk
                /\ pc' = "synthesize_speech"
           ELSE /\ calls' = done
                /\ response' = SinkFail(StatusOf(r.err))
                /\ sunk' = Complete(sunk, response')
                /\ pc' = "done"
    /\ UNCHANGED <<rpc, req, prev, memo, mainVars, clientVars>>

\* synthesize_speech returns; synthesize replies
SynthesizeSpeechReturns(o) ==
    /\ pc = "synthesize_speech"
    /\ LET r == synthesize_speech(o)
       IN  /\ calls' = <<calls[1], calls[2], Return(calls[3], o, r)>>
           /\ response' = IF r.ok
                          THEN SinkSuccess(SynthesizeResponse(r.val))
                          ELSE SinkFail(StatusOf(r.err))
           /\ sunk' = Complete(sunk, response')
           /\ pc' = "done"
    /\ UNCHANGED <<rpc, req, prev, memo, mainVars, clientVars>>

\* the handler has spawned the reply and returns to the completion queue
HandlerReturns ==
    /\ pc = "done"
    /\ prev' = Observed
    /\ pc' = "idle"
    /\ rpc' = "none"
    /\ req' = NoRequest
    /\ calls' = <<>>
    /\ response' = NoResponse
    /\ sunk' = <<>>
    /\ UNCHANGED <<memo, mainVars, clientVars>>

\* a caller keeps what it sent and what came back, to compare a later call
Remember ==
    /\ pc = "done"
    /\ memo = NoMemo
    /\ memo' = [rpc |-> rpc, req |-> req, calls |-> calls,
                response |-> response]
    /\ UNCHANGED <<handlerVars, mainVars, clientVars>>

Next ==
    \/ \E r \in LanguageRequest : Translate(r)
    \/ \E r \in LanguageRequest : Synthesize(r)
    \/ \E o \in TranslateOutcomes : TranslateTextReturns(o)
    \/ \E o \in DescribeVoicesOutcomes : GetVoiceIdReturns(o)
    \/ \E o \in SynthesizeSpeechOutcomes : SynthesizeSpeechReturns(o)
    \/ HandlerReturns

Spec == Init /\ [][Next]_vars

\* ------------------------------------------- repeated calls against a stub
ScenarioRequests ==
    [source_language_code : {"EN", "UNKNOWN"},
     target_language_code : {"FR"},
     text : Texts]

StubTranslateOutcomes ==
    {Ok([translated_text |-> "bonjour"]), Err("Validation"),
     Err("ServiceUnavailable")}

StubDescribeVoicesOutcomes ==
    {Ok([voices |-> Some(<<[id |-> Some("Celine")]>>)]), Ok([voices |-> None]),
     Err("Validation"), Err("ServiceFailure")}

StubSynthesizeSpeechOutcomes ==
    {Ok([audio_stream |-> Some(<<1, 2>>)]), Ok([audio_stream |-> None]),
     Err("InvalidSsml"), Err("ServiceFailure")}

NextRepeat ==
    \/ \E r \in ScenarioRequests : Translate(r)
    \/ \E r \in ScenarioRequests : Synthesize(r)
    \/ \E o \in StubTranslateOutcomes : TranslateTextReturns(o)
    \/ \E o \in StubDescribeVoicesOutcomes : GetVoiceIdReturns(o)
    \/ \E o \in StubSynthesizeSpeechOutcomes : SynthesizeSpeechReturns(o)
    \/ HandlerReturns
    \/ Remember

SpecRepeat == Init /\ [][NextRepeat]_vars

\* ------------------------------------------------------ main of the server
\* thread::spawn: the thread that reads standard input starts
MainSpawn ==
    /\ main_pc = "spawn"
    /\ main_pc' = "recv"
    /\ stdin_pc' = "read"
    /\ UNCHANGED <<chan, server, handlerVars, memo, clientVars>>

\* io::stdin().read returns: the operator has pressed ENTER
StdinRead ==
    /\ stdin_pc = "read"
    /\ stdin_pc' = "send"
    /\ UNCHANGED <<main_pc, chan, server, handlerVars, memo, clientVars>>

\* tx.send(()), the last statement of the thread
StdinSend ==
    /\ stdin_pc = "send"
    /\ chan' = chan + 1
    /\ stdin_pc' = "done"
    /\ UNCHANGED <<main_pc, server, handlerVars, memo, clientVars>>

\* variant: the receive does not block (try_recv)
RecvReady_NonBlocking == TRUE

\* rx.recv() blocks until the channel holds a message
RecvReady == chan > 0

\* rx.recv() returns
MainRecv ==
    /\ main_pc = "recv"
    /\ RecvReady
    /\ chan' = IF chan > 0 THEN chan - 1 ELSE chan
    /\ main_pc' = "shutdown"
    /\ UNCHANGED <<stdin_pc, server, handlerVars, memo, clientVars>>

\* server.shutdown(): the server stops accepting calls
MainShutdown ==
    /\ main_pc = "shutdown"
    /\ server' = "shutting_down"
    /\ main_pc' = "wait"
    /\ UNCHANGED <<stdin_pc, chan, handlerVars, memo, clientVars>>

\* the shutdown future resolves once the call in progress has finished
ServerStops ==
    /\ server = "shutting_down"
    /\ pc = "idle"
    /\ server' = "stopped"
    /\ UNCHANGED <<main_pc, stdin_pc, chan, handlerVars, memo, clientVars>>

\* .wait() returns and main ends
MainExit ==
    /\ main_pc = "wait"
    /\ server = "stopped"
    /\ main_pc' = "exited"
    /\ UNCHANGED <<stdin_pc, chan, server, handlerVars, memo, clientVars>>

NextMain ==
    \/ MainSpawn
    \/ StdinRead
    \/ StdinSend
    \/ MainRecv
    \/ MainShutdown
    \/ ServerStops
    \/ MainExit
    \/ /\ server = "listening"
       /\ \E r \in ScenarioRequests : Translate(r)
    \/ /\ main_pc # "exited"
       /\ \E o \in StubTranslateOutcomes : TranslateTextReturns(o)
    \/ /\ main_pc # "exited"
       /\ HandlerReturns

\* the main thread runs whenever it is not blocked
SpecMain ==
    /\ Init
    /\ [][NextMain]_vars
    /\ WF_vars(MainRecv)
    /\ WF_vars(MainShutdown)
    /\ WF_vars(MainExit)

\* ------------------------------------------------------ the terminal client
MaxSynth == 2       \* successful Synthesize calls in one run of the client

\* the lines the user may submit; <<>> is end of input
Lines ==
    {<<>>, <<"\n">>, <<" ", "\n">>,
     <<"1", "\n">>, <<"2", "\n">>, <<"3", "\n">>, <<"4", "\n">>,
     <<"5", "\n">>, <<"6", "\n">>, <<"7", "\n">>, <<" ", "2", " ", "\n">>,
     <<"h", "i", "\n">>}

IsWhitespace(ch) == ch \in {" ", "\n", "\t", "\r"}

RECURSIVE TrimStart(_)
TrimStart(s) ==
    IF s # <<>> /\ IsWhitespace(Head(s)) THEN TrimStart(Tail(s)) ELSE s

RECURSIVE TrimEnd(_)
TrimEnd(s) ==
    IF s # <<>> /\ IsWhitespace(s[Len(s)])
    THEN TrimEnd(SubSeq(s, 1, Len(s) - 1))
    ELSE s

\* str::trim
Trim(s) == TrimEnd(TrimStart(s))

Digits == <<"0", "1", "2", "3", "4", "5", "6", "7", "8", "9">>

\* Display of an integer that is not negative
RECURSIVE FormatInt(_)
FormatInt(n) ==
    IF n < 10 THEN <<Digits[n + 1]>>
    ELSE FormatInt(n \div 10) \o <<Digits[(n % 10) + 1]>>

\* format!("syn-{}.mp3", count)
FileName(n) ==
    <<"s", "y", "n", "-">> \o FormatInt(n) \o <<".", "m", "p", "3">>

\* the match of the SRC and TARGET stages
SelectLanguage(t) ==
    CASE t = <<"1">> -> "ZH"
      [] t = <<"2">> -> "EN"
      [] t = <<"3">> -> "FR"
      [] t = <<"4">> -> "DE"
      [] t = <<"5">> -> "ES"
      [] t = <<"6">> -> "PT"
      [] OTHER       -> "UNKNOWN"

\* variant: any other input selects translate
SelectOperation_Default(t) ==
    CASE t = <<"2">> -> "synthesize"
      [] OTHER       -> "translate"

\* the match of the OPERATION stage: the operation chosen, "" for none
SelectOperation(t) ==
    CASE t = <<"1">> -> "translate"
      [] t = <<"2">> -> "synthesize"
      [] OTHER       -> ""

\* variant: the text is trimmed before it is sent
RequestText_Trimmed(line) == Trim(line)

\* req.text = input.clone()
RequestText(line) == line

\* variant: quit only at end of input
QuitOn_EndOfInput(line) == line = <<>>

\* quit if nothing is submitted
QuitOn(line) == Trim(line) = <<>>

\* variant: the stage advances whatever the code
Advance_Always(code) == TRUE

\* the stage advances when the selected code is not UNKNOWN
Advance(code) == code # "UNKNOWN"

\* variant: a failed call also goes back to the first stage
StageAfterRpc_AlwaysBack(ok) == "OPERATION"

\* the stage after the RPC of the TEXT stage
StageAfterRpc(ok) == IF ok THEN "OPERATION" ELSE "TEXT"

\* variant: the counter is not incremented
CountAfter_Same(n) == n

\* count += 1
CountAfter(n) == n + 1

\* fs::write(name, bytes)
Write(fs, name, bytes) ==
    [n \in DOMAIN fs \cup {name} |-> IF n = name THEN bytes ELSE fs[n]]

\* what an RPC of the client may come back with
RpcStatusCodes == {"InvalidArgument", "Internal"}

TranslateResults ==
    {Ok(TranslateResponse(t)) : t \in Texts}
        \cup {Err(RpcStatus(c, None)) : c \in RpcStatusCodes}

SynthesizeResults ==
    {Ok(SynthesizeResponse(a)) : a \in AudioStreams}
        \cup {Err(RpcStatus(c, None)) : c \in RpcStatusCodes}

\* Stage::OPERATION
ChooseOperation(line) ==
    /\ alive
    /\ stage = "OPERATION"
    /\ input' = line
    /\ LET o == SelectOperation(Trim(line))
       IN  IF o # ""
           THEN stage' = "SRC" /\ op' = o
           ELSE UNCHANGED <<stage, op>>
    /\ last' = NoRpc
    /\ alive' = ~QuitOn(line)
    /\ UNCHANGED <<creq, count, files, handlerVars, memo, mainVars>>

\* Stage::SRC
ChooseSource(line) ==
    /\ alive
    /\ stage = "SRC"
    /\ input' = line
    /\ LET code == SelectLanguage(Trim(line))
       IN  /\ creq' = [creq EXCEPT !.source_language_code = code]
           /\ stage' = IF Advance(code) THEN "TARGET" ELSE stage
    /\ last' = NoRpc
    /\ alive' = ~QuitOn(line)
    /\ UNCHANGED <<op, count, files, handlerVars, memo, mainVars>>

\* Stage::TARGET
ChooseTarget(line) ==
    /\ alive
    /\ stage = "TARGET"
    /\ input' = line
    /\ LET code == SelectLanguage(Trim(line))
       IN  /\ creq' = [creq EXCEPT !.target_language_code = code]
           /\ stage' = IF Advance(code) THEN "TEXT" ELSE stage
    /\ last' = NoRpc
    /\ alive' = ~QuitOn(line)
    /\ UNCHANGED <<op, count, files, handlerVars, memo, mainVars>>

\* Stage::TEXT, client.translate
EnterTextTranslate(line, result) ==
    /\ alive
    /\ stage = "TEXT"
    /\ op = "translate"
    /\ input' = line
    /\ creq' = [creq EXCEPT !.text = RequestText(line)]
    /\ last' = [rpc |-> "translate", req |-> creq', result |-> result]
    /\ stage' = StageAfterRpc(result.ok)
    /\ alive' = ~QuitOn(line)
    /\ UNCHANGED <<op, count, files, handlerVars, memo, mainVars>>

\* Stage::TEXT, client.synthesize
EnterTextSynthesize(line, result) ==
    /\ alive
    /\ stage = "TEXT"
    /\ op # "translate"
    /\ result.ok => count < MaxSynth
    /\ input' = line
    /\ creq' = [creq EXCEPT !.text = RequestText(line)]
    /\ last' = [rpc |-> "synthesize", req |-> creq', result |-> result]
    /\ IF result.ok
       THEN /\ count' = CountAfter(count)
            /\ files' = Write(files, FileName(count'), result.val.audio_bytes)
       ELSE UNCHANGED <<count, files>>
    /\ stage' = StageAfterRpc(result.ok)
    /\ alive' = ~QuitOn(line)
    /\ UNCHANGED <<op, handlerVars, memo, mainVars>>

NextClient ==
    \/ \E line \in Lines : ChooseOperation(line)
    \/ \E line \in Lines : ChooseSource(line)
    \/ \E line \in Lines : ChooseTarget(line)
    \/ \E line \in Lines, result \in TranslateResults :
           EnterTextTranslate(line, result)
    \/ \E line \in Lines, result \in SynthesizeResults :
           EnterTextSynthesize(line, result)

InitClient ==
    /\ HandlerInit
    /\ MainInit
    /\ \E d \in LanguageCode : ClientInit(d)

SpecClient == InitClient /\ [][NextClient]_vars

\* ------------------------------------------------------------------ claims
Chain == <<"translate_text", "get_voice_id", "synthesize_speech">>

Failed == pc = "done" /\ ~response.ok
Succeeded == pc = "done" /\ response.ok

\* C1: a Synthesize request whose source or target language code is UNKNOWN
\* is answered with the invalid-argument status, and no adapter (translation,
\* voice resolution, speech synthesis) is called while handling it.
C1_UnknownCodeRejected ==
    (rpc = "synthesize"
        /\ (req.source_language_code = "UNKNOWN"
            \/ req.target_language_code = "UNKNOWN"))
    => /\ pc = "done"
       /\ response = SinkFail(RpcStatus("InvalidArgument", None))
       /\ calls = <<>>

C1_Witness ==
    /\ rpc = "synthesize"
    /\ req.source_language_code = "UNKNOWN"
    /\ req.target_language_code # "UNKNOWN"
    /\ Failed

\* C2: within one Synthesize call the adapter calls are a prefix of
\* translate_text, get_voice_id, synthesize_speech: each adapter at most
\* once, each only after the one before it returned Ok, and none after the
\* first one that returned Err.
C2_ChainIsSequentialPrefix ==
    rpc = "synthesize" =>
        /\ Len(calls) <= Len(Chain)
        /\ \A i \in 1..Len(calls) : calls[i].adapter = Chain[i]
        /\ \A i \in 1..(Len(calls) - 1) :
               calls[i].returned /\ calls[i].result.ok
        /\ \A i \in 1..Len(calls) :
               (calls[i].returned /\ ~calls[i].result.ok)
                   => (i = Len(calls) /\ pc = "done")
        /\ \A i \in 1..Len(calls) : ~calls[i].returned => pc = Chain[i]

C2_Witness ==
    /\ rpc = "synthesize"
    /\ Len(calls) = 2
    /\ calls[2].returned
    /\ ~calls[2].result.ok
    /\ pc = "done"

\* C3: when an adapter stage fails, the RPC (Translate or Synthesize) fails
\* with invalid-argument exactly when the stage's error kind is User and
\* with internal exactly when it is Internal; no other failure status is
\* ever produced.
C3_StatusFollowsErrorKind ==
    /\ \A i \in 1..Len(calls) :
           (calls[i].returned /\ ~calls[i].result.ok) =>
               /\ Failed
               /\ calls[i].result.err \in ErrorType
               /\ response.status.code = "InvalidArgument"
                      <=> calls[i].result.err = "User"
               /\ response.status.code = "Internal"
                      <=> calls[i].result.err = "Internal"
    /\ Failed => response.status.code \in {"InvalidArgument", "Internal"}

C3_Witness ==
    /\ rpc = "translate"
    /\ Failed
    /\ calls[1].result.err = "Internal"
    /\ response.status.code = "Internal"

\* C4: when all three stages of Synthesize succeed, synthesize_speech was
\* called with the text translate_text returned (the provider's translated
\* text) and the voice id get_voice_id resolved for the locale tag of the
\* request's target language, and the response's audio_bytes are the bytes
\* synthesize_speech returned; a successful Translate returns exactly the
\* provider's translated text.
C4_SuccessCarriesStageResults ==
    /\ (rpc = "synthesize" /\ Succeeded) =>
           /\ Len(calls) = 3
           /\ calls[1].result.val = calls[1].outcome.val.translated_text
           /\ calls[2].args.language_code
                  = LocaleTag(req.target_language_code)
           /\ calls[3].args.text = calls[1].result.val
           /\ calls[3].args.voice_id = calls[2].result.val
           /\ calls[3].sent.text = calls[1].result.val
           /\ calls[3].sent.voice_id = calls[2].result.val
           /\ response.resp.audio_bytes = calls[3].result.val
    /\ (rpc = "translate" /\ Succeeded) =>
           response.resp.translated_text
               = calls[1].outcome.val.translated_text

C4_Witness ==
    /\ rpc = "synthesize"
    /\ Succeeded
    /\ calls[1].result.val # req.text
    /\ calls[3].args.text = "bonjour"
    /\ calls[3].args.voice_id = "Celine"
    /\ response.resp.audio_bytes = <<1, 2>>

\* C5: in every execution, for Translate and for Synthesize, translate_text
\* is only ever called with a source and a target code that are not UNKNOWN.
C5_TranslateTextCodesKnown ==
    \A i \in 1..Len(calls) :
        calls[i].adapter = "translate_text" =>
            /\ calls[i].args.source_language_code # "UNKNOWN"
            /\ calls[i].args.target_language_code # "UNKNOWN"

\* C6: translate_text maps a provider fault to exactly one error kind:
\* internal-server, service-unavailable, dispatch, unknown and parse faults
\* to Internal, every other fault to User.
C6_TranslateFaultMapping ==
    \A i \in 1..Len(calls) :
        (calls[i].adapter = "translate_text" /\ calls[i].returned
            /\ ~calls[i].outcome.ok) =>
            /\ ~calls[i].result.ok
            /\ calls[i].result.err \in ErrorType
            /\ calls[i].result.err = "Internal"
                   <=> calls[i].outcome.err \in
                         {"InternalServer", "ServiceUnavailable",
                          "HttpDispatch", "Unknown", "ParseError"}
            /\ calls[i].result.err = "User"
                   <=> calls[i].outcome.err \notin
                         {"InternalServer", "ServiceUnavailable",
                          "HttpDispatch", "Unknown", "ParseError"}

C6_Witness ==
    /\ Len(calls) = 1
    /\ calls[1].returned
    /\ ~calls[1].outcome.ok
    /\ calls[1].outcome.err = "UnsupportedLanguagePair"
    /\ calls[1].result = Err("User")

\* C7: get_voice_id maps a provider fault to exactly one error kind:
\* invalid-next-token, validation and credentials faults to User, every
\* other fault to Internal.
C7_VoiceFaultMapping ==
    \A i \in 1..Len(calls) :
        (calls[i].adapter = "get_voice_id" /\ calls[i].returned
            /\ ~calls[i].outcome.ok) =>
            /\ ~calls[i].result.ok
            /\ calls[i].result.err \in ErrorType
            /\ calls[i].result.err = "User"
                   <=> calls[i].outcome.err \in
                         {"InvalidNextToken", "Validation", "Credentials"}
            /\ calls[i].result.err = "Internal"
                   <=> calls[i].outcome.err \notin
                         {"InvalidNextToken", "Validation", "Credentials"}

C7_Witness ==
    /\ Len(calls) = 2
    /\ calls[2].returned
    /\ ~calls[2].outcome.ok
    /\ calls[2].outcome.err = "ServiceFailure"
    /\ calls[2].result = Err("Internal")

\* C8: synthesize_speech maps a provider fault to exactly one error kind:
\* dispatch, unknown, service-failure and parse faults to Internal, every
\* other fault to User; a successful provider answer without an audio
\* payload gives Ok with an empty byte sequence.
C8_SpeechFaultMapping ==
    \A i \in 1..Len(calls) :
        (calls[i].adapter = "synthesize_speech" /\ calls[i].returned) =>
            /\ ~calls[i].outcome.ok =>
                   /\ ~calls[i].result.ok
                   /\ calls[i].result.err \in ErrorType
                   /\ calls[i].result.err = "Internal"
                          <=> calls[i].outcome.err \in
                                {"HttpDispatch", "Unknown",
                                 "ServiceFailure", "ParseError"}
                   /\ calls[i].result.err = "User"
                          <=> calls[i].outcome.err \notin
                                {"HttpDispatch", "Unknown",
                                 "ServiceFailure", "ParseError"}
            /\ (calls[i].outcome.ok /\ ~calls[i].outcome.val.audio_stream.some)
                   => calls[i].result = Ok(<<>>)

C8_Witness ==
    /\ Len(calls) = 3
    /\ calls[3].returned
    /\ calls[3].outcome.ok
    /\ ~calls[3].outcome.val.audio_stream.some
    /\ Succeeded
    /\ response.resp.audio_bytes = <<>>

\* C9: when the voice-list call succeeds, get_voice_id returns the id of the
\* first voice of the list; for an empty or absent list it returns Ok("")
\* and Synthesize still calls synthesize_speech, with that empty voice id.
C9_FirstVoiceOrEmpty ==
    \A i \in 1..Len(calls) :
        (calls[i].adapter = "get_voice_id" /\ calls[i].returned
            /\ calls[i].outcome.ok) =>
            LET vs == calls[i].outcome.val.voices
            IN  /\ (vs.some /\ Len(vs.val) > 0 /\ vs.val[1].id.some)
                       => calls[i].result = Ok(vs.val[1].id.val)
                /\ (~vs.some \/ Len(vs.val) = 0) =>
                       /\ calls[i].result = Ok("")
                       /\ Len(calls) = i + 1
                       /\ calls[i + 1].adapter = "synthesize_speech"
                       /\ calls[i + 1].args.voice_id = ""
                       /\ calls[i + 1].sent.voice_id = ""

C9_Witness ==
    /\ Len(calls) = 3
    /\ calls[2].outcome.ok
    /\ calls[2].outcome.val.voices = Some(<<>>)
    /\ calls[3].args.voice_id = ""
    /\ calls[3].returned

\* C10: a failed reply carries a status code and nothing else, so two failed
\* Synthesize runs whose failing stages differ (validation, translate_text,
\* get_voice_id, synthesize_speech) but whose error kinds are equal give the
\* caller identical replies.
C10_FailingStageNotObservable ==
    /\ Failed => response.status.details = None
    /\ (Failed /\ rpc = "synthesize" /\ prev.stage # "none"
            /\ prev.rpc = "synthesize"
            /\ prev.stage # FailedStage /\ prev.kind = FailedKind)
           => response = prev.response

C10_Witness ==
    /\ Failed
    /\ rpc = "synthesize"
    /\ prev.stage = "validation"
    /\ prev.rpc = "synthesize"
    /\ FailedStage = "synthesize_speech"
    /\ FailedKind = prev.kind

\* the provider answers of the adapter calls a and b agree as far as both go
SameAnswers(a, b) ==
    \A i \in 1..(IF Len(a) < Len(b) THEN Len(a) ELSE Len(b)) :
        a[i].returned /\ b[i].returned /\ a[i].outcome = b[i].outcome

C17_LocaleTagOfTarget ==
    \A i \in 1..Len(calls) :
        calls[i].adapter = "get_voice_id" =>
            /\ req.target_language_code \in LanguageCode \ {"UNKNOWN"}
            /\ calls[i].args.language_code =
                   CASE req.target_language_code = "ZH"
                            -> <<"c","m","n","-","C","N">>
                     [] req.target_language_code = "EN"
                            -> <<"e","n","-","U","S">>
                     [] req.target_language_code = "FR"
                            -> <<"f","r","-","F","R">>
                     [] req.target_language_code = "DE"
                            -> <<"d","e","-","D","E">>
                     [] req.target_language_code = "ES"
                            -> <<"e","s","-","E","S">>
                     [] req.target_language_code = "PT"
                            -> <<"p","t","-","P","T">>
            /\ calls[i].sent.language_code = Some(calls[i].args.language_code)

C17_Witness ==
    /\ Len(calls) >= 2
    /\ calls[2].adapter = "get_voice_id"
    /\ req.target_language_code = "PT"
    /\ calls[2].args.language_code = <<"p","t","-","P","T">>

\* the handler has reached the end of one of its paths: validation failed,
\* a stage failed, or the last stage of the RPC returned
PathEnded ==
    /\ rpc # "none"
    /\ \/ calls = <<>>
       \/ /\ calls[Len(calls)].returned
          /\ \/ ~calls[Len(calls)].result.ok
             \/ rpc = "translate"
             \/ Len(calls) = 3

\* C19: every invocation of the Translate or Synthesize handler completes
\* its sink exactly once, with a success or with a failure, on every path;
\* before the end of the path the sink is not completed.
C19_SinkCompletedExactlyOnce ==
    /\ PathEnded =>
           /\ Len(sunk) = 1
           /\ sunk[1] = response
           /\ sunk[1].ok \in BOOLEAN
           /\ sunk[1].ok => "resp" \in DOMAIN sunk[1]
           /\ ~sunk[1].ok => "status" \in DOMAIN sunk[1]
    /\ ~PathEnded => sunk = <<>>

C19_Witness ==
    /\ PathEnded
    /\ rpc = "synthesize"
    /\ Len(calls) = 2
    /\ ~calls[2].result.ok
    /\ Len(sunk) = 1
    /\ ~sunk[1].ok

\* the message of the stdin thread has been sent and received by main
SignalReceived ==
    /\ stdin_pc = "done"
    /\ chan = 0
    /\ main_pc \in {"shutdown", "wait", "exited"}

Blank(line) == \A i \in DOMAIN line : line[i] \in {" ", "\n", "\t", "\r"}

\* C13: in the client, a blank line submitted at any of the four stages ends
\* the program at the end of that loop iteration, and a line that is not
\* blank never ends it.
C13_BlankLineQuits ==
    [][alive => (alive' <=> ~Blank(input'))]_clientVars

C13_Witness ==
    /\ ~alive
    /\ stage = "TARGET"
    /\ input = <<" ", "\n">>

\* what a loop iteration of the text stage may do
TextStep ==
    stage = "TEXT" =>
          /\ last'.rpc # "none"
          /\ ~last'.result.ok =>
                 /\ stage' = "TEXT"
                 /\ op' = op
                 /\ creq'.source_language_code = creq.source_language_code
                 /\ creq'.target_language_code = creq.target_language_code
                 /\ count' = count
                 /\ files' = files
          /\ stage' # "TEXT" => (stage' = "OPERATION" /\ last'.result.ok)

\* C14: in the client, when the RPC of the text stage fails, the client stays
\* in the text stage and the operation, the source and target language and
\* the file counter are unchanged; it returns to the operation stage only
\* when the RPC succeeded.
C14_FailedRpcKeepsSelection == [][TextStep]_clientVars

C14_Witness ==
    /\ alive
    /\ stage = "TEXT"
    /\ last.rpc = "synthesize"
    /\ ~last.result.ok
    /\ count = 1

\* the selections a stage accepts
ValidSelections(st) ==
    IF st = "OPERATION" THEN {<<"1">>, <<"2">>}
    ELSE {<<"1">>, <<"2">>, <<"3">>, <<"4">>, <<"5">>, <<"6">>}

\* the fixed order of the stages
StageAfter(st) ==
    CASE st = "OPERATION" -> "SRC"
      [] st = "SRC"       -> "TARGET"
      [] st = "TARGET"    -> "TEXT"

\* what a loop iteration of a selection stage may do
SelectionStep ==
    stage \in {"OPERATION", "SRC", "TARGET"} =>
          /\ (~Blank(input') /\ Trim(input') \notin ValidSelections(stage))
                 => (stage' = stage /\ alive')
          /\ stage' # stage =>
                 /\ Trim(input') \in ValidSelections(stage)
                 /\ stage' = StageAfter(stage)
          /\ Trim(input') \in ValidSelections(stage)
                 => stage' = StageAfter(stage)

\* C15: in the client, a line that is not blank and is not a valid selection
\* leaves the client running in the same stage at the operation, source and
\* target stages; the client leaves one of these stages only on a valid
\* selection, and then for the next stage in the order operation, source,
\* target, text.
C15_InvalidSelectionStays == [][SelectionStep]_clientVars

C15_Witness ==
    /\ alive
    /\ stage = "OPERATION"
    /\ input = <<"7", "\n">>
    /\ count = 1

\* the name of the k-th file, k below ten
SynName(k) ==
    <<"s", "y", "n", "-",
      <<"0", "1", "2", "3", "4", "5", "6", "7", "8", "9">>[k + 1],
      ".", "m", "p", "3">>

\* what a loop iteration may do to the counter and the files
CounterStep ==
    IF last'.rpc = "synthesize" /\ last'.result.ok
    THEN /\ count' = count + 1
         /\ DOMAIN files' = DOMAIN files \cup {SynName(count')}
         /\ files'[SynName(count')] = last'.result.val.audio_bytes
         /\ \A n \in DOMAIN files : files'[n] = files[n]
    ELSE count' = count /\ files' = files

\* C16: in one run of the client the file counter starts at 0, goes up by
\* exactly one on each successful Synthesize, which writes the returned
\* audio bytes to syn-k.mp3 for the new counter value k, and is changed
\* neither by a failed Synthesize nor by any Translate.
C16_CounterNamesFiles ==
    /\ count = 0
    /\ [](DOMAIN files = {SynName(k) : k \in 1..count})
    /\ [][CounterStep]_clientVars

C16_Witness ==
    /\ count = 2
    /\ files[SynName(1)] = <<1, 2>>
    /\ files[SynName(2)] = <<>>
    /\ last.rpc = "synthesize"

\* C18: in every reachable state of the client, the text stage implies that
\* the source and the target language of the request are not UNKNOWN, so no
\* Translate or Synthesize request is sent with an UNKNOWN code.
C18_TextStageHasKnownCodes ==
    /\ stage = "TEXT" =>
           /\ creq.source_language_code # "UNKNOWN"
           /\ creq.target_language_code # "UNKNOWN"
    /\ last.rpc # "none" =>
           /\ last.req.source_language_code # "UNKNOWN"
           /\ last.req.target_language_code # "UNKNOWN"

C18_Witness ==
    /\ stage = "TEXT"
    /\ count = 1
    /\ last.rpc = "none"
    /\ input = <<"6", "\n">>

\* what a loop iteration that read a blank line may do
BlankLineStep ==
    (alive /\ Blank(input')) =>
          /\ ~alive'
          /\ stage = "TEXT" =>
                 /\ last'.rpc = op
                 /\ last'.req.text = input'
                 /\ (op = "synthesize" /\ last'.result.ok) =>
                        /\ count' = count + 1
                        /\ SynName(count') \in DOMAIN files'
                        /\ files'[SynName(count')]
                               = last'.result.val.audio_bytes
          /\ stage # "TEXT" =>
                 /\ last'.rpc = "none"
                 /\ count' = count
                 /\ files' = files

\* C20: in the client, a blank line at the text stage still sends the
\* selected RPC, with that line as text, and a successful Synthesize still
\* increments the counter and writes the file, before the program ends; a
\* blank line at the other three stages ends it without an RPC.
C20_BlankTextStillSent == [][BlankLineStep]_clientVars

C20_Witness ==
    /\ ~alive
    /\ input = <<" ", "\n">>
    /\ last.rpc = "synthesize"
    /\ last.result.ok
    /\ last.req.text = <<" ", "\n">>
    /\ count = 1
    /\ SynName(1) \in DOMAIN files

====
